---- MODULE Spec2Model ----
(***************************************************************************)
(* Model of src/index.js: the POST /upload handler (the transfer-and-      *)
(* publish pipeline), its helper downloadFromR2ToTemp, the GET             *)
(* /auth/callback handler and the process-wide MongoDB handle.  Every      *)
(* `await` of a handler is a suspension point: the synchronous code        *)
(* between two awaits is one action.  The callback form of fs.unlink is    *)
(* not awaited; its completion is an action of its own.                    *)
(*                                                                         *)
(* The two handlers share the db handle and the `tokens` collection, which *)
(* /upload only reads.  Spec and LiveSpec run the uploads over the         *)
(* collection as it is at start; AuthSpec runs the callbacks.              *)
(***************************************************************************)
EXTENDS Integers, Sequences, FiniteSets, TLC

\* ----- bounds of the model -----
NumRuns == 2
MaxClock == 1
NumCallbacks == 2

Runs == 1..NumRuns
Callbacks == 1..NumCallbacks

\* ----- values -----
None == "undefined"
Absent == 0
\* no object key yet (objectName before line 156); no unlink in flight
NoName == <<>>
NoUnlink == [path |-> <<>>, step |-> None]
\* the null that findOne resolves to when no document matches
Null == [sub |-> None]

Subjects == {"u1", "u2"}
UserIds == {None} \cup Subjects
VideoUrls == {None, "https://example.com/a.mp4"}
ContentLengths == {None, "12345"}
VideoIds == {"vid"}
\* values of uuidv4().slice(0, 8).  Two runs get distinct keys when their
\* Date.now() differ and equal keys when both parts agree; nothing else reads
\* either part, so one suffix value gives both cases.
Suffixes == {"3f9a1c0e"}

\* the $set fields of a document written some time ago: its access token
\* (valid for an hour from its grant) has expired, its refresh token has not
Rec == [email |-> "a@x", access_token |-> "at0", refresh_token |-> "rt0", token_expiry |-> 0]
\* a document of the `tokens` collection: the filter field and the $set fields
\* of lines 84-94; id stands for _id, given in the order of insertion
Document(id, sub, fields) ==
    [id |-> id, sub |-> sub, email |-> fields.email, access_token |-> fields.access_token,
     refresh_token |-> fields.refresh_token, token_expiry |-> fields.token_expiry]
NoFields == [email |-> None, access_token |-> None, refresh_token |-> None, token_expiry |-> None]
\* what getToken(code) and verifyIdToken resolve to for the codes Google may
\* have issued: the tokens, and sub and email of the id token
AccessTokens == {"at1", "at2"}
EmailOf(sub) == IF sub = "u1" THEN "a@x" ELSE "b@x"
Grant(sub, at) ==
    [sub |-> sub, email |-> EmailOf(sub), access_token |-> at, refresh_token |-> "rt1",
     expiry_date |-> 5]
Grants == {Grant(sub, at) : sub \in Subjects, at \in AccessTokens}
NoGrant == Grant(None, None)
\* the update document of lines 86-93
SetFields(g) ==
    [email |-> g.email, access_token |-> g.access_token, refresh_token |-> g.refresh_token,
     token_expiry |-> g.expiry_date]
\* no document matched the filter
NoMatch == 0
\* the collection when the process starts: "u1" has authorized, "u2" has not
InitialTokens == {Document(1, "u1", Rec)}

\* the credentials of a new OAuth2Client, and those set on lines 143-147 (which
\* are reached with a document only: line 135 returns on null)
NoCredentials == [access_token |-> None, refresh_token |-> None, expiry_date |-> None]
Credentials(found) ==
    IF found = Null THEN NoCredentials
    ELSE [access_token |-> found.access_token, refresh_token |-> found.refresh_token,
          expiry_date |-> found.token_expiry]
\* what the token endpoint grants when the client refreshes an expired access
\* token before a request; the client keeps it in its own credentials
RefreshGrant == [access_token |-> "at9", expiry_date |-> 9]
Expired(cred, now) == cred.expiry_date <= now
Refreshed(cred) ==
    [cred EXCEPT !.access_token = RefreshGrant.access_token,
                 !.expiry_date = RefreshGrant.expiry_date]

\* JavaScript `!x` on the values a query parameter or header can take
Falsy(x) == x = None \/ x = ""

\* `video_${Date.now()}_${uuidv4().slice(0, 8)}.mp4`
ObjectNameOf(now, rnd) == <<"video", now, rnd, "mp4">>
ObjectNames == {ObjectNameOf(t, u) : t \in 0..MaxClock, u \in Suffixes}

\* path.join(os.tmpdir(), objectKey)
TempPath(objectKey) == <<"tmpdir", objectKey>>
TempPaths == {TempPath(k) : k \in ObjectNames}

\* ----- errors (err.message, err.response?.data) -----
Err(m, d) == [message |-> m, details |-> d]
DbUnsetError == Err("TypeError: cannot read 'collection' of undefined", None)
MongoError == Err("MongoError", None)
FetchErrors == {Err("FetchError: network", None), Err("FetchError: status", "upstream body")}
LengthError == Err("Content-Length header missing from video source", None)
StorageWriteError == Err("StorageWriteError", None)
StorageReadError == Err("StorageReadError", None)
PipelineError == Err("PipelineError", None)
AuthExpiredError == Err("AuthExpired: invalid_grant", "invalid_grant")
QuotaError == Err("PublishError: quotaExceeded", "quotaExceeded")
PublishErrors == {AuthExpiredError, QuotaError}
StorageDeleteError == Err("StorageDeleteError", None)

\* ----- responses -----
Json(status, error, details, videoId) ==
    [status |-> status, error |-> error, details |-> details, videoId |-> videoId]
Unauthenticated == Json(401, "User not authenticated", None, None)
UrlRequired == Json(400, "Video URL is required", None, None)
UserNotFound == Json(401, "User not found", None, None)
Uploaded(id) == Json(200, None, None, id)
\* Mutant of ErrorResponse: the catch block answers with a fixed message, as
\* the one of /auth/callback does.
ErrorResponse_Generic(err) == Json(500, "Upload failed", None, None)

\* the catch block of the handler
ErrorResponse(err) == Json(500, err.message, err.details, None)

VARIABLES
    pc,            \* per run: where the handler is suspended
    req,           \* per run: userId (query) and video_url (body)
    sent,          \* per run: the responses written to res, in order
    userData,      \* per run: what findOne resolved to (line 134), Null before
    userAuth,      \* per run: the credentials held by its OAuth2Client (lines 138-147)
    contentLength, \* per run: the content-length header read on line 152
    objectName,    \* per run: the generated object key, NoName before line 156
    log,           \* per run: the external calls started and ended, in order
    unlinkPending, \* per run: path of an fs.unlink issued and not yet completed
    r2,            \* object storage: key -> run whose bytes it holds, or Absent
    disk,          \* temp directory: path -> run whose bytes it holds, or Absent
    dbState,       \* the `db` handle: "pending", "connected" or "failed"
    tokens,        \* the `tokens` collection: a set of documents
    clock,         \* the last value Date.now() returned; it never decreases
    cbPc,          \* per callback: where the /auth/callback handler is suspended
    cbGrant,       \* per callback: `tokens` and the id token's payload (lines 73-81)
    cbMatch,       \* per callback: the document its updateOne matched, NoMatch if none
    cbSent,        \* per callback: the responses written to res, in order
    oauth2Client,  \* the credentials of the process-wide client (lines 52-56, 74)
    lastUpsert     \* history: sub -> the $set fields of the last updateOne applied

uploadVars == <<pc, req, sent, userData, userAuth, contentLength, objectName, log,
                unlinkPending, r2, disk, clock>>
authVars == <<cbPc, cbGrant, cbMatch, cbSent, oauth2Client, lastUpsert>>
vars == <<uploadVars, dbState, tokens, authVars>>

Init ==
    /\ pc = [r \in Runs |-> "idle"]
    /\ req = [r \in Runs |-> [userId |-> None, video_url |-> None]]
    /\ sent = [r \in Runs |-> <<>>]
    /\ userData = [r \in Runs |-> Null]
    /\ userAuth = [r \in Runs |-> NoCredentials]
    /\ contentLength = [r \in Runs |-> None]
    /\ objectName = [r \in Runs |-> NoName]
    /\ log = [r \in Runs |-> <<>>]
    /\ unlinkPending = [r \in Runs |-> NoUnlink]
    /\ r2 = [k \in ObjectNames |-> Absent]
    /\ disk = [p \in TempPaths |-> Absent]
    /\ dbState = "pending"
    /\ tokens = InitialTokens
    /\ clock = 0
    /\ cbPc = [c \in Callbacks |-> "idle"]
    /\ cbGrant = [c \in Callbacks |-> NoGrant]
    /\ cbMatch = [c \in Callbacks |-> NoMatch]
    /\ cbSent = [c \in Callbacks |-> <<>>]
    /\ oauth2Client = NoCredentials
    /\ lastUpsert = [s \in Subjects |-> IF s = "u1" THEN Rec ELSE NoFields]

\* ----- history of external calls -----
Started(l, step) == Append(l, <<step, "start">>)
Ended(l, step, how) == Append(l, <<step, how>>)
Then(l, done, next) == Started(Ended(l, done, "ok"), next)
Has(l, e) == \E i \in 1..Len(l) : l[i] = e
Count(l, e) == LET Same(x) == x = e IN Len(SelectSeq(l, Same))

\* Mutant of Respond: the handler ends without writing a response.
Respond_Silent(r, resp) ==
    /\ UNCHANGED sent
    /\ pc' = [pc EXCEPT ![r] = "done"]

\* res.status(..).json(..) followed by the end of the handler
Respond(r, resp) ==
    /\ sent' = [sent EXCEPT ![r] = Append(@, resp)]
    /\ pc' = [pc EXCEPT ![r] = "done"]

\* ----- MongoClient.connect(...).then(...).catch(...) -----
MongoConnected ==
    /\ dbState = "pending"
    /\ dbState' = "connected"
    /\ UNCHANGED <<pc, req, sent, userData, contentLength, objectName, log, unlinkPending,
                   r2, disk, tokens, authVars, userAuth, clock>>

MongoConnectFailed ==
    /\ dbState = "pending"
    /\ dbState' = "failed"
    /\ UNCHANGED <<pc, req, sent, userData, contentLength, objectName, log, unlinkPending,
                   r2, disk, tokens, authVars, userAuth, clock>>

\* Mutant of Validate: the checks of lines 129 and 130 in the other order.
Validate_UrlFirst(userId, video_url) ==
    IF Falsy(video_url) THEN "urlRequired"
    ELSE IF Falsy(userId) THEN "unauthenticated"
    ELSE "ok"

\* Mutant of Validate: the userId check of line 129 is missing.
Validate_NoUserCheck(userId, video_url) ==
    IF Falsy(video_url) THEN "urlRequired" ELSE "ok"

\* ----- POST /upload, lines 124-134: validation and the credential query -----
\* lines 129-130: the two early returns, in the order the code makes them
Validate(userId, video_url) ==
    IF Falsy(userId) THEN "unauthenticated"
    ELSE IF Falsy(video_url) THEN "urlRequired"
    ELSE "ok"

\* Mutant of Upload: the handler proceeds to the query although `db` is unset.
Upload_NoDbCheck(r) ==
    /\ pc[r] = "idle"
    /\ IF r = 1 THEN TRUE ELSE pc[r - 1] # "idle"
    /\ \E userId \in UserIds, video_url \in VideoUrls :
        /\ req' = [req EXCEPT ![r] = [userId |-> userId, video_url |-> video_url]]
        /\ CASE Validate(userId, video_url) = "unauthenticated" ->
                  Respond(r, Unauthenticated) /\ UNCHANGED log
             [] Validate(userId, video_url) = "urlRequired" ->
                  Respond(r, UrlRequired) /\ UNCHANGED log
             [] OTHER ->
                  /\ log' = [log EXCEPT ![r] = Started(@, "load")]
                  /\ pc' = [pc EXCEPT ![r] = "awaitLoad"]
                  /\ UNCHANGED sent
    /\ UNCHANGED <<userData, contentLength, objectName, unlinkPending, r2, disk, dbState,
                   tokens, authVars, userAuth, clock>>

\* Runs are numbered in their order of arrival.
Upload(r) ==
    /\ pc[r] = "idle"
    /\ IF r = 1 THEN TRUE ELSE pc[r - 1] # "idle"
    /\ \E userId \in UserIds, video_url \in VideoUrls :
        /\ req' = [req EXCEPT ![r] = [userId |-> userId, video_url |-> video_url]]
        /\ CASE Validate(userId, video_url) = "unauthenticated" ->
                  Respond(r, Unauthenticated) /\ UNCHANGED log
             [] Validate(userId, video_url) = "urlRequired" ->
                  Respond(r, UrlRequired) /\ UNCHANGED log
             [] OTHER ->
                  IF dbState # "connected"
                  THEN \* db is undefined: db.collection throws, the catch block answers
                       Respond(r, ErrorResponse(DbUnsetError)) /\ UNCHANGED log
                  ELSE /\ log' = [log EXCEPT ![r] = Started(@, "load")]
                       /\ pc' = [pc EXCEPT ![r] = "awaitLoad"]
                       /\ UNCHANGED sent
    /\ UNCHANGED <<userData, contentLength, objectName, unlinkPending, r2, disk, dbState,
                   tokens, authVars, userAuth, clock>>

\* users.findOne({ sub: userId })
Matching(coll, sub) == {d \in coll : d.sub = sub}
FindOne(coll, sub) ==
    IF Matching(coll, sub) = {} THEN Null
    ELSE CHOOSE d \in Matching(coll, sub) : \A other \in Matching(coll, sub) : d.id <= other.id

\* Mutant of UserMissing: the null check of line 135 is missing.
UserMissing_Never(found) == FALSE

\* line 135: what the handler does with the query's result
UserMissing(found) == found = Null

\* lines 134-151: the query returns; the OAuth client is set up; axios.get starts
LoadReturn(r) ==
    /\ pc[r] = "awaitLoad"
    /\ \/ /\ Respond(r, ErrorResponse(MongoError))
          /\ log' = [log EXCEPT ![r] = Ended(@, "load", "fail")]
          /\ UNCHANGED <<userData, userAuth>>
       \/ /\ userData' = [userData EXCEPT ![r] = FindOne(tokens, req[r].userId)]
          /\ IF UserMissing(userData'[r])
             THEN /\ Respond(r, UserNotFound)
                  /\ log' = [log EXCEPT ![r] = Ended(@, "load", "ok")]
                  /\ UNCHANGED userAuth
             ELSE /\ userAuth' = [userAuth EXCEPT ![r] = Credentials(userData'[r])]
                  /\ log' = [log EXCEPT ![r] = Then(@, "load", "fetch")]
                  /\ pc' = [pc EXCEPT ![r] = "awaitFetch"]
                  /\ UNCHANGED sent
    /\ UNCHANGED <<req, contentLength, objectName, unlinkPending, r2, disk, dbState, tokens, authVars,
                   clock>>

\* Mutant of LengthMissing: the check of line 153 is missing.
LengthMissing_Never(header) == FALSE

\* line 153: `if (!contentLength) throw`
LengthMissing(header) == Falsy(header)

\* lines 151-162: axios.get returns; the key is generated; PutObject starts
FetchReturn(r) ==
    /\ pc[r] = "awaitFetch"
    /\ \/ /\ \E e \in FetchErrors : Respond(r, ErrorResponse(e))
          /\ log' = [log EXCEPT ![r] = Ended(@, "fetch", "fail")]
          /\ UNCHANGED <<contentLength, objectName, clock>>
       \/ \E header \in ContentLengths :
            /\ contentLength' = [contentLength EXCEPT ![r] = header]
            /\ IF LengthMissing(header)
               THEN /\ Respond(r, ErrorResponse(LengthError))
                    /\ log' = [log EXCEPT ![r] = Ended(@, "fetch", "ok")]
                    /\ UNCHANGED <<objectName, clock>>
               ELSE /\ \E now \in clock..MaxClock, rnd \in Suffixes :
                         /\ clock' = now
                         /\ objectName' = [objectName EXCEPT ![r] = ObjectNameOf(now, rnd)]
                    /\ log' = [log EXCEPT ![r] = Then(@, "fetch", "stage")]
                    /\ pc' = [pc EXCEPT ![r] = "awaitPut"]
                    /\ UNCHANGED sent
    /\ UNCHANGED <<req, userData, unlinkPending, r2, disk, dbState, tokens, authVars, userAuth>>

\* Mutant of PutReturn: the rejection of PutObject is swallowed and the
\* handler goes on to downloadFromR2ToTemp.
PutReturn_IgnoreFailure(r) ==
    /\ pc[r] = "awaitPut"
    /\ \E how \in {"ok", "fail"}, written \in BOOLEAN :
         /\ r2' = IF written THEN [r2 EXCEPT ![objectName[r]] = r] ELSE r2
         /\ log' = [log EXCEPT ![r] = Started(Ended(@, "stage", how), "materialize")]
    /\ pc' = [pc EXCEPT ![r] = "awaitGet"]
    /\ UNCHANGED <<req, sent, userData, contentLength, objectName, unlinkPending, disk,
                   dbState, tokens, authVars, userAuth, clock>>

\* lines 157-165 and 104-112: PutObject returns; downloadFromR2ToTemp starts GetObject.
\* A failed write leaves the object state unknown: written or not.
PutReturn(r) ==
    /\ pc[r] = "awaitPut"
    /\ \/ /\ r2' = [r2 EXCEPT ![objectName[r]] = r]
          /\ log' = [log EXCEPT ![r] = Then(@, "stage", "materialize")]
          /\ pc' = [pc EXCEPT ![r] = "awaitGet"]
          /\ UNCHANGED sent
       \/ /\ \E written \in BOOLEAN :
               r2' = IF written THEN [r2 EXCEPT ![objectName[r]] = r] ELSE r2
          /\ Respond(r, ErrorResponse(StorageWriteError))
          /\ log' = [log EXCEPT ![r] = Ended(@, "stage", "fail")]
    /\ UNCHANGED <<req, userData, contentLength, objectName, unlinkPending, disk, dbState,
                   tokens, authVars, userAuth, clock>>

\* fs.unlink(path, callback): issued on the thread pool, never awaited.  It may
\* already have acted when the next statement of the handler runs (early), or act
\* later (UnlinkComplete).  d is the directory at the moment of the call.
UnlinkIssued(r, d, step, early) ==
    LET p == TempPath(objectName[r]) IN
    IF early
    THEN /\ disk' = [d EXCEPT ![p] = Absent]
         /\ UNCHANGED unlinkPending
    ELSE /\ disk' = d
         /\ unlinkPending' = [unlinkPending EXCEPT ![r] = [path |-> p, step |-> step]]

UnlinkLogged(l, d, p, step, early) ==
    IF early
    THEN Ended(Started(l, step), step, IF d[p] = Absent THEN "fail" ELSE "ok")
    ELSE Started(l, step)

\* Mutant of GetReturn: the catch block of downloadFromR2ToTemp rethrows without
\* removing the temp file.
GetReturn_NoDiscard(r) ==
    /\ pc[r] = "awaitGet"
    /\ \/ /\ r2[objectName[r]] # Absent
          /\ pc' = [pc EXCEPT ![r] = "awaitPipe"]
          /\ UNCHANGED <<sent, log>>
       \/ /\ log' = [log EXCEPT ![r] = Ended(@, "materialize", "fail")]
          /\ Respond(r, ErrorResponse(StorageReadError))
    /\ UNCHANGED <<req, userData, contentLength, objectName, unlinkPending, r2, disk,
                   dbState, tokens, authVars, userAuth, clock>>

\* line 112, and lines 118-120 with the handler's catch block when it throws
GetReturn(r) ==
    /\ pc[r] = "awaitGet"
    /\ \/ /\ r2[objectName[r]] # Absent
          /\ pc' = [pc EXCEPT ![r] = "awaitPipe"]
          /\ UNCHANGED <<sent, log, disk, unlinkPending>>
       \/ \E early \in BOOLEAN :
            /\ UnlinkIssued(r, disk, "discard", early)
            /\ log' = [log EXCEPT ![r] =
                 Ended(UnlinkLogged(@, disk, TempPath(objectName[r]), "discard", early),
                       "materialize", "fail")]
            /\ Respond(r, ErrorResponse(StorageReadError))
    /\ UNCHANGED <<req, userData, contentLength, objectName, r2, dbState, tokens, authVars, userAuth, clock>>

\* lines 113-117 and 165-168: the copy to the temp file ends; videos.insert starts.
\* A copy that fails part-way may or may not have created the file.
PipeReturn(r) ==
    /\ pc[r] = "awaitPipe"
    /\ \/ /\ disk' = [disk EXCEPT ![TempPath(objectName[r])] = r]
          /\ log' = [log EXCEPT ![r] = Then(@, "materialize", "publish")]
          /\ pc' = [pc EXCEPT ![r] = "awaitPublish"]
          /\ UNCHANGED <<sent, unlinkPending>>
       \/ \E created \in BOOLEAN, early \in BOOLEAN :
            LET d == IF created THEN [disk EXCEPT ![TempPath(objectName[r])] = r] ELSE disk IN
            /\ UnlinkIssued(r, d, "discard", early)
            /\ log' = [log EXCEPT ![r] =
                 Ended(UnlinkLogged(@, d, TempPath(objectName[r]), "discard", early),
                       "materialize", "fail")]
            /\ Respond(r, ErrorResponse(PipelineError))
    /\ UNCHANGED <<req, userData, contentLength, objectName, r2, dbState, tokens, authVars, userAuth, clock>>

\* Mutant of PublishReturn: a rejected videos.insert is tried once more.
PublishReturn_Retry(r) ==
    /\ pc[r] = "awaitPublish"
    /\ \/ /\ log' = [log EXCEPT ![r] = Then(@, "publish", "delete")]
          /\ pc' = [pc EXCEPT ![r] = "awaitDelete"]
          /\ UNCHANGED sent
       \/ /\ Count(log[r], <<"publish", "start">>) < 2
          /\ log' = [log EXCEPT ![r] = Started(Ended(@, "publish", "fail"), "publish")]
          /\ UNCHANGED <<pc, sent>>
       \/ /\ Count(log[r], <<"publish", "start">>) >= 2
          /\ \E e \in PublishErrors : Respond(r, ErrorResponse(e))
          /\ log' = [log EXCEPT ![r] = Ended(@, "publish", "fail")]
    /\ UNCHANGED <<req, userData, contentLength, objectName, unlinkPending, r2, disk,
                   dbState, tokens, authVars, userAuth, clock>>

\* lines 168-189: videos.insert returns; DeleteObject starts.  Before it sends
\* the request the client (userAuth) compares the expiry of its access token
\* with the time it reads (new Date().getTime(), not the handler's Date.now();
\* its early-refresh margin is left out): if the token has expired the client
\* asks for a new one with the refresh token and keeps the grant in its
\* credentials; a refused refresh rejects the call.  The handler reads nothing
\* back from userAuth.
PublishReturn(r) ==
    /\ pc[r] = "awaitPublish"
    /\ \E now \in clock..MaxClock :
         LET held == IF Expired(userAuth[r], now) THEN Refreshed(userAuth[r])
                     ELSE userAuth[r] IN
         \/ /\ userAuth' = [userAuth EXCEPT ![r] = held]
            /\ log' = [log EXCEPT ![r] = Then(@, "publish", "delete")]
            /\ pc' = [pc EXCEPT ![r] = "awaitDelete"]
            /\ UNCHANGED sent
         \/ /\ userAuth' = [userAuth EXCEPT ![r] = held]
            /\ Respond(r, ErrorResponse(QuotaError))
            /\ log' = [log EXCEPT ![r] = Ended(@, "publish", "fail")]
         \/ /\ UNCHANGED userAuth
            /\ Respond(r, ErrorResponse(AuthExpiredError))
            /\ log' = [log EXCEPT ![r] = Ended(@, "publish", "fail")]
    /\ UNCHANGED <<req, userData, contentLength, objectName, unlinkPending, r2, disk,
                   dbState, tokens, authVars, clock>>

\* Mutant of Deleted: the delete is sent for another key and removes nothing.
Deleted_WrongKey(store, key) == store

\* what a DeleteObject that succeeded has done to the bucket
Deleted(store, key) == [store EXCEPT ![key] = Absent]

\* lines 186-198: DeleteObject returns; fs.unlink is issued; the 200 is sent.
\* A failed delete may or may not have removed the object.
DeleteReturn(r) ==
    /\ pc[r] = "awaitDelete"
    /\ \/ \E early \in BOOLEAN, id \in VideoIds :
            /\ r2' = Deleted(r2, objectName[r])
            /\ UnlinkIssued(r, disk, "cleanup", early)
            /\ log' = [log EXCEPT ![r] =
                 UnlinkLogged(Ended(@, "delete", "ok"), disk, TempPath(objectName[r]),
                              "cleanup", early)]
            /\ Respond(r, Uploaded(id))
       \/ /\ \E gone \in BOOLEAN :
               r2' = IF gone THEN Deleted(r2, objectName[r]) ELSE r2
          /\ log' = [log EXCEPT ![r] = Ended(@, "delete", "fail")]
          /\ Respond(r, ErrorResponse(StorageDeleteError))
          /\ UNCHANGED <<disk, unlinkPending>>
    /\ UNCHANGED <<req, userData, contentLength, objectName, dbState, tokens, authVars, userAuth, clock>>

\* the thread pool carries out a pending fs.unlink; its callback only logs
UnlinkComplete(r) ==
    /\ unlinkPending[r] # NoUnlink
    /\ LET p == unlinkPending[r].path
           step == unlinkPending[r].step IN
       \/ /\ disk[p] # Absent
          /\ disk' = [disk EXCEPT ![p] = Absent]
          /\ log' = [log EXCEPT ![r] = Ended(@, step, "ok")]
       \/ /\ log' = [log EXCEPT ![r] = Ended(@, step, "fail")]
          /\ UNCHANGED disk
    /\ unlinkPending' = [unlinkPending EXCEPT ![r] = NoUnlink]
    /\ UNCHANGED <<pc, req, sent, userData, contentLength, objectName, r2, dbState, tokens, authVars, userAuth,
                   clock>>

Next ==
    \/ MongoConnected
    \/ MongoConnectFailed
    \/ \E r \in Runs :
        \/ Upload(r)
        \/ LoadReturn(r)
        \/ FetchReturn(r)
        \/ PutReturn(r)
        \/ GetReturn(r)
        \/ PipeReturn(r)
        \/ PublishReturn(r)
        \/ DeleteReturn(r)
        \/ UnlinkComplete(r)

Spec == Init /\ [][Next]_vars

\* Every external call of a run that is awaited eventually resolves or rejects:
\* the continuation after each `await` of lines 134-189 eventually runs.
CallsReturn ==
    \A r \in Runs :
        /\ WF_vars(LoadReturn(r))
        /\ WF_vars(FetchReturn(r))
        /\ WF_vars(PutReturn(r))
        /\ WF_vars(GetReturn(r))
        /\ WF_vars(PipeReturn(r))
        /\ WF_vars(PublishReturn(r))
        /\ WF_vars(DeleteReturn(r))

LiveSpec == Spec /\ CallsReturn

\* ----- GET /auth/callback, lines 70-102 -----
AuthJson(status, message, error, userId) ==
    [status |-> status, message |-> message, error |-> error, userId |-> userId]
AuthSuccessful(sub) == AuthJson(200, "Authentication successful", None, sub)
\* the catch block of lines 98-101: one message for every error
AuthFailed == AuthJson(500, None, "Authentication failed", None)

AuthRespond(c, resp) ==
    /\ cbSent' = [cbSent EXCEPT ![c] = Append(@, resp)]
    /\ cbPc' = [cbPc EXCEPT ![c] = "done"]

\* lines 70-73: the request arrives; getToken(code) starts.  Callbacks are
\* numbered in their order of arrival.
AuthCallback(c) ==
    /\ cbPc[c] = "idle"
    /\ IF c = 1 THEN TRUE ELSE cbPc[c - 1] # "idle"
    /\ cbPc' = [cbPc EXCEPT ![c] = "awaitToken"]
    /\ UNCHANGED <<uploadVars, dbState, tokens, cbGrant, cbMatch, cbSent, oauth2Client,
                   lastUpsert>>

\* lines 73-76: getToken returns; the grant is set on the process-wide client;
\* verifyIdToken starts
GetTokenReturn(c) ==
    /\ cbPc[c] = "awaitToken"
    /\ \/ /\ AuthRespond(c, AuthFailed)
          /\ UNCHANGED <<cbGrant, oauth2Client>>
       \/ \E g \in Grants :
            /\ cbGrant' = [cbGrant EXCEPT ![c] = g]
            /\ oauth2Client' = [access_token |-> g.access_token,
                                refresh_token |-> g.refresh_token,
                                expiry_date |-> g.expiry_date]
            /\ cbPc' = [cbPc EXCEPT ![c] = "awaitVerify"]
            /\ UNCHANGED cbSent
    /\ UNCHANGED <<uploadVars, dbState, tokens, cbMatch, lastUpsert>>

\* lines 76-84: verifyIdToken returns; db.collection throws while `db` is unset;
\* updateOne starts
VerifyReturn(c) ==
    /\ cbPc[c] = "awaitVerify"
    /\ \/ AuthRespond(c, AuthFailed)
       \/ IF dbState # "connected"
          THEN AuthRespond(c, AuthFailed)
          ELSE /\ cbPc' = [cbPc EXCEPT ![c] = "awaitUpdate"]
               /\ UNCHANGED cbSent
    /\ UNCHANGED <<uploadVars, dbState, tokens, cbGrant, cbMatch, oauth2Client, lastUpsert>>

\* updateOne({ sub }, { $set }, { upsert: true }) on the server, first half: the
\* filter is evaluated.  The collection has no unique index on sub (the code
\* creates none), so an upsert that matched nothing inserts without looking
\* again: the two halves are not one atomic step.
UpsertFilter(c) ==
    /\ cbPc[c] = "awaitUpdate"
    /\ cbMatch' = [cbMatch EXCEPT ![c] =
         IF Matching(tokens, cbGrant[c].sub) = {} THEN NoMatch
         ELSE FindOne(tokens, cbGrant[c].sub).id]
    /\ cbPc' = [cbPc EXCEPT ![c] = "awaitWrite"]
    /\ UNCHANGED <<uploadVars, dbState, tokens, cbGrant, cbSent, oauth2Client, lastUpsert>>

\* what the write half of the upsert leaves in the collection
Applied(coll, match, sub, fields) ==
    IF match = NoMatch
    THEN coll \cup {Document(Cardinality(coll) + 1, sub, fields)}
    ELSE {IF d.id = match THEN Document(d.id, d.sub, fields) ELSE d : d \in coll}

\* lines 84-97: the write is applied and updateOne returns; the response is sent
UpdateReturn(c) ==
    /\ cbPc[c] = "awaitWrite"
    /\ \/ /\ AuthRespond(c, AuthFailed)
          /\ UNCHANGED <<tokens, lastUpsert>>
       \/ /\ tokens' = Applied(tokens, cbMatch[c], cbGrant[c].sub, SetFields(cbGrant[c]))
          /\ lastUpsert' = [lastUpsert EXCEPT ![cbGrant[c].sub] = SetFields(cbGrant[c])]
          /\ AuthRespond(c, AuthSuccessful(cbGrant[c].sub))
    /\ UNCHANGED <<uploadVars, dbState, cbGrant, cbMatch, oauth2Client>>

AuthNext ==
    \/ MongoConnected
    \/ MongoConnectFailed
    \/ \E c \in Callbacks :
        \/ AuthCallback(c)
        \/ GetTokenReturn(c)
        \/ VerifyReturn(c)
        \/ UpsertFilter(c)
        \/ UpdateReturn(c)

AuthSpec == Init /\ [][AuthNext]_vars

\* ======================= properties =======================
Finished(r) == pc[r] = "done"
Arrived(r) == pc[r] # "idle"
Answered(r, status) == Len(sent[r]) >= 1 /\ sent[r][Len(sent[r])].status = status
\* the object this run wrote is in the bucket; the file this run wrote is on disk
OwnObjectStaged(r) == \E k \in ObjectNames : r2[k] = r
OwnFileExists(r) == \E p \in TempPaths : disk[p] = r
CallStarted(r, step) == Has(log[r], <<step, "start">>)

\* C1: every run that fails at or after staging has, when it answers 500, no
\* staged object and no local artifact of its own left.
C1_FailedRunReleased ==
    \A r \in Runs :
        (Finished(r) /\ Answered(r, 500) /\ CallStarted(r, "stage"))
            => (~OwnObjectStaged(r) /\ ~OwnFileExists(r))

\* C2: when a run has answered 200 with a videoId, the object it staged is no
\* longer in object storage.
C2_StagedObjectDeletedOnSuccess ==
    \A r \in Runs :
        (Finished(r) /\ Answered(r, 200)) => ~OwnObjectStaged(r)

C2_Witness ==
    \E r \in Runs :
        /\ Finished(r) /\ Answered(r, 200)
        /\ Has(log[r], <<"stage", "ok">>) /\ Has(log[r], <<"delete", "ok">>)

\* C3: a failed delete of the staged object does not change the result: a run
\* whose publish succeeded and whose delete failed still answers 200 with the
\* video id.
C3_DeleteFailureKeepsSuccess ==
    \A r \in Runs :
        (Finished(r) /\ Has(log[r], <<"publish", "ok">>) /\ Has(log[r], <<"delete", "fail">>))
            => (Answered(r, 200) /\ sent[r][Len(sent[r])].videoId \in VideoIds)

\* C4: a request without userId is answered 401 "User not authenticated" at
\* once, whatever else it carries: no call is made and nothing is touched.
C4_NoUserIdUnauthenticated ==
    \A r \in Runs :
        (Arrived(r) /\ Falsy(req[r].userId))
            => /\ Finished(r)
               /\ sent[r] = <<Unauthenticated>>
               /\ log[r] = <<>>
               /\ objectName[r] = NoName
               /\ unlinkPending[r] = NoUnlink
               /\ ~OwnObjectStaged(r) /\ ~OwnFileExists(r)

C4_Witness ==
    \E r \in Runs :
        /\ Finished(r) /\ Falsy(req[r].userId) /\ ~Falsy(req[r].video_url)
        /\ dbState = "connected"
        /\ sent[r] = <<Unauthenticated>>

NoRecord(r) == req[r].userId \in Subjects /\ Matching(tokens, req[r].userId) = {}
PipelineSteps == {"fetch", "stage", "materialize", "publish"}
NoPipelineCall(r) == \A step \in PipelineSteps : ~CallStarted(r, step)

\* C5 as stated: every request whose userId has no Credential Record ends
\* 401 "User not found", with no fetch call.
C5_NoRecordAlwaysNotFound ==
    \A r \in Runs :
        (Finished(r) /\ NoRecord(r))
            => (sent[r] = <<UserNotFound>> /\ ~CallStarted(r, "fetch"))

\* C5 as amended: a run whose userId has no Credential Record never makes a
\* fetch, stage, materialize or publish call.  It ends 401 "User not found"
\* exactly when its credential query resolved (with no document); without a
\* video_url it ends 400 before the query, and when the query throws (db
\* handle unset, or the query rejected) it ends 500.
C5_NoRecordNoFetch ==
    \A r \in Runs :
        (Arrived(r) /\ NoRecord(r))
            => /\ NoPipelineCall(r)
               /\ objectName[r] = NoName
               /\ Has(log[r], <<"load", "ok">>)
                      => (Finished(r) /\ userData[r] = Null /\ sent[r] = <<UserNotFound>>)
               /\ (Finished(r) /\ Falsy(req[r].video_url))
                      => (sent[r] = <<UrlRequired>> /\ log[r] = <<>>)
               /\ (Finished(r) /\ ~Falsy(req[r].video_url) /\ ~Has(log[r], <<"load", "ok">>))
                      => Answered(r, 500)

C5_Witness ==
    \E r \in Runs :
        /\ Finished(r) /\ NoRecord(r)
        /\ Has(log[r], <<"load", "ok">>)
        /\ sent[r] = <<UserNotFound>>

FetchFailed(r) == Has(log[r], <<"fetch", "fail">>)
LengthUndeclared(r) == Has(log[r], <<"fetch", "ok">>) /\ contentLength[r] = None

\* C6: when opening the source fails, or its response has no content length,
\* the run answers 500 (with the missing-length message in the second case),
\* and it never stages an object, creates a temp file or calls publish.
C6_NoFetchNoStage ==
    \A r \in Runs :
        (FetchFailed(r) \/ LengthUndeclared(r))
            => /\ Finished(r)
               /\ Answered(r, 500) /\ Len(sent[r]) = 1
               /\ LengthUndeclared(r) => sent[r] = <<ErrorResponse(LengthError)>>
               /\ \A step \in {"stage", "materialize", "publish", "delete", "cleanup"} :
                      ~CallStarted(r, step)
               /\ objectName[r] = NoName
               /\ ~OwnObjectStaged(r) /\ ~OwnFileExists(r)

C6_Witness ==
    \E a, b \in Runs :
        /\ Finished(a) /\ FetchFailed(a)
        /\ Finished(b) /\ LengthUndeclared(b)

\* C7: when a run has ended (its response is sent), the temp file it created
\* no longer exists.
C7_TempFileGoneAtEnd ==
    \A r \in Runs : Finished(r) => ~OwnFileExists(r)

\* The steps of a run, in the order of the handler (lines 132-198).  The
\* removal of a partial temp file inside downloadFromR2ToTemp (line 119) is part
\* of its materialize step and is logged as "discard".
StepOrder == <<"load", "fetch", "stage", "materialize", "publish", "delete", "cleanup">>
Steps == {StepOrder[i] : i \in 1..Len(StepOrder)}
IsStepEvent(e) == e[1] \in Steps
StepEvents(r) == SelectSeq(log[r], IsStepEvent)

\* the events of a run in which every step succeeded
FullRun ==
    [j \in 1..(2 * Len(StepOrder)) |->
        <<StepOrder[(j + 1) \div 2], IF j % 2 = 1 THEN "start" ELSE "ok">>]

\* C8: in one run the steps start only in the order load, fetch, stage,
\* materialize, publish, delete, cleanup; each starts only after the step
\* before it has ended successfully; at most one step is in progress.  On the
\* log: its events are the first events of a run in which every step
\* succeeded, except that the last one may be the failure of a step instead
\* of its success.
C8_StepsStrictlyOrdered ==
    \A r \in Runs :
        LET ev == StepEvents(r)
            n == Len(ev) IN
        /\ n <= Len(FullRun)
        /\ n > 0 =>
             /\ SubSeq(ev, 1, n - 1) = SubSeq(FullRun, 1, n - 1)
             /\ \/ ev[n] = FullRun[n]
                \/ n % 2 = 0 /\ ev[n] = <<FullRun[n][1], "fail">>

C8_Witness ==
    \E r \in Runs :
        /\ \A step \in Steps : CallStarted(r, step)
        /\ Has(log[r], <<"cleanup", "ok">>)
        /\ Answered(r, 200)

IsPipelineStart(e) == e[2] = "start" /\ e[1] \in PipelineSteps

\* C9: no step is retried: a run starts each of fetch, stage, materialize and
\* publish at most once, and after a failed publish it starts no call at all
\* and ends.
C9_NoRetry ==
    \A r \in Runs :
        LET starts == SelectSeq(log[r], IsPipelineStart) IN
        /\ \A a, b \in 1..Len(starts) : a < b => starts[a][1] # starts[b][1]
        /\ \A i \in 1..Len(log[r]) :
               log[r][i] = <<"publish", "fail">>
                   => /\ Finished(r)
                      /\ \A j \in (i + 1)..Len(log[r]) : log[r][j][2] # "start"

C9_Witness ==
    \E r \in Runs :
        /\ Finished(r)
        /\ Has(log[r], <<"publish", "fail">>)
        /\ sent[r] = <<ErrorResponse(Err("AuthExpired: invalid_grant", "invalid_grant"))>>

\* C10: a request with a userId and no video_url is answered 400 "Video URL is
\* required" without a credential query or any other call; a request with
\* neither is answered 401, not 400.
C10_UrlRequired ==
    \A r \in Runs :
        (Arrived(r) /\ Falsy(req[r].video_url))
            => /\ Finished(r)
               /\ log[r] = <<>>
               /\ userData[r] = Null
               /\ objectName[r] = NoName
               /\ sent[r] = IF Falsy(req[r].userId) THEN <<Unauthenticated>> ELSE <<UrlRequired>>

C10_Witness ==
    \E a, b \in Runs :
        /\ dbState = "connected"
        /\ Finished(a) /\ ~Falsy(req[a].userId) /\ Falsy(req[a].video_url)
        /\ sent[a] = <<UrlRequired>>
        /\ Finished(b) /\ Falsy(req[b].userId) /\ Falsy(req[b].video_url)
        /\ sent[b] = <<Unauthenticated>>

HasKey(r) == objectName[r] # NoName

\* C12: the object keys, and the temp file paths derived from them, of two
\* different runs are never equal, also when the runs are concurrent or read
\* the same millisecond from Date.now().
C12_KeysNeverShared ==
    \A a, b \in Runs :
        (a # b /\ HasKey(a) /\ HasKey(b))
            => /\ objectName[a] # objectName[b]
               /\ TempPath(objectName[a]) # TempPath(objectName[b])

\* C13: a run whose PutObject was rejected has started a DeleteObject for the
\* generated key by the time it answers.
C13_FailedStageAttemptsDelete ==
    \A r \in Runs :
        (Finished(r) /\ Has(log[r], <<"stage", "fail">>)) => CallStarted(r, "delete")

MaterializeFailed(r) == Has(log[r], <<"materialize", "fail">>)
MaterializeErrors == {StorageReadError, PipelineError}

\* C14: when downloadFromR2ToTemp fails, on the storage read or during the
\* copy, the removal of the temp file has been started before the failure
\* reaches the handler, and the handler answers with the error of the read or
\* of the copy, whatever the removal does.
C14_MaterializeFailureDiscards ==
    \A r \in Runs :
        \A i \in 1..Len(log[r]) :
            log[r][i] = <<"materialize", "fail">>
                => /\ \E j \in 1..(i - 1) : log[r][j] = <<"discard", "start">>
                   /\ Finished(r) /\ Len(sent[r]) = 1
                   /\ \E e \in MaterializeErrors :
                          /\ sent[r][1].status = 500
                          /\ sent[r][1].error = e.message
                   /\ unlinkPending[r] # NoUnlink
                          => unlinkPending[r] =
                                 [path |-> TempPath(objectName[r]), step |-> "discard"]

C14_Witness ==
    \E a, b \in Runs :
        /\ sent[a] = <<ErrorResponse(StorageReadError)>>
        /\ Has(log[a], <<"discard", "fail">>)
        /\ sent[b] = <<ErrorResponse(PipelineError)>>
        /\ Has(log[b], <<"discard", "ok">>)

ErrorsOf(step) ==
    CASE step = "fetch" -> FetchErrors
      [] step = "stage" -> {StorageWriteError}
      [] step = "materialize" -> MaterializeErrors
      [] step = "publish" -> PublishErrors
FailedStep(r, step) == Has(log[r], <<step, "fail">>)

DbUnset == dbState # "connected"

\* C18: a request with userId and video_url that arrives while the db handle
\* is unset (connection pending or failed) is answered 500 at once: it starts
\* no credential query and no fetch, stage, materialize or publish call, and is
\* never answered 200.  In any state, a run answered with the unset-handle error
\* has made no call.
C18_UnsetDbAnswers500 ==
    \A r \in Runs :
        /\ (DbUnset /\ Arrived(r) /\ Validate(req[r].userId, req[r].video_url) = "ok")
               => /\ Finished(r)
                  /\ Len(sent[r]) = 1 /\ sent[r][1].status = 500
                  /\ log[r] = <<>>
                  /\ userData[r] = Null
                  /\ objectName[r] = NoName
        /\ (Len(sent[r]) >= 1 /\ sent[r][1].error = DbUnsetError.message)
               => (Len(sent[r]) = 1 /\ sent[r][1].status = 500 /\ log[r] = <<>>)

C18_Witness ==
    \E a, b \in Runs :
        /\ dbState = "failed"
        /\ req[a].userId = "u1" /\ req[b].userId = "u2"
        /\ ~Falsy(req[a].video_url) /\ ~Falsy(req[b].video_url)
        /\ sent[a] = <<ErrorResponse(DbUnsetError)>>
        /\ sent[b] = <<ErrorResponse(DbUnsetError)>>

ResponseStatuses == {200, 400, 401, 500}

TokenRefreshed(r) ==
    /\ userData[r] # Null
    /\ userAuth[r].access_token # userData[r].access_token

\* C11: when a run has ended and its client refreshed the access token during
\* publish, the document of the run's subject in the collection holds the new
\* access token and expiry.
C11_RefreshWrittenBack ==
    \A r \in Runs :
        (Finished(r) /\ TokenRefreshed(r))
            => /\ FindOne(tokens, req[r].userId).access_token = userAuth[r].access_token
               /\ FindOne(tokens, req[r].userId).token_expiry = userAuth[r].expiry_date

FieldsOf(d) ==
    [email |-> d.email, access_token |-> d.access_token, refresh_token |-> d.refresh_token,
     token_expiry |-> d.token_expiry]
\* an upsert carried out with nothing in between
Upsert(coll, g) ==
    Applied(coll, IF Matching(coll, g.sub) = {} THEN NoMatch ELSE FindOne(coll, g.sub).id,
            g.sub, SetFields(g))

\* C16: whatever /auth/callback executions have run, concurrent ones for one
\* subject included, the collection holds at most one document per subject,
\* that document carries the fields of the last upsert for the subject, and
\* repeating an upsert changes nothing.
C16_OneRecordPerSubject ==
    /\ \A sub \in Subjects :
           /\ Cardinality(Matching(tokens, sub)) <= 1
           /\ \A d \in Matching(tokens, sub) : FieldsOf(d) = lastUpsert[sub]
    /\ \A g \in Grants : Upsert(Upsert(tokens, g), g) = Upsert(tokens, g)

====
